---- MODULE Spec2Model ----
(***************************************************************************)
(* Model of src/src/ChatService.js: the reaction driven widgets of the     *)
(* chat service (pagedContent, displaySong), the sequential emoji poster   *)
(* (postReactionEmojis) and the rating handler (handleRatingReaction).     *)
(*                                                                         *)
(* The Discord gateway is the environment: it acknowledges or rejects      *)
(* every request (send, react, edit, reaction removal) at a time of its    *)
(* own choosing, and it delivers reaction events and collector timeouts.   *)
(* Every callback of the service is one action: JavaScript runs a callback *)
(* to completion, and the promise continuations chained on one settlement  *)
(* run back to back before the next event is delivered.                    *)
(*                                                                         *)
(* Emojis: "back" is the rewind emoji, "fwd" the fast-forward emoji, "up"  *)
(* and "down" the rating arrows, "poop" the flag emoji.                    *)
(***************************************************************************)
EXTENDS Integers, Sequences, FiniteSets, Bags, TLC

\* Bounds of the model.
MaxPages == 3     \* longest pages array handed to pagedContent
MaxNav == 3      \* reaction events delivered on one paged message
MaxVotes == 2    \* reaction events delivered on one song message
MaxLen == 3       \* longest list handed directly to postReactionEmojis
MaxSerial == 3   \* reaction events delivered one at a time on one song message

Self == "self"                \* the bot's own account (user.bot is true)
Humans == {"U1", "U2"}
Users == Humans \cup {Self}
Author == "U1"                \* msg.author of the originating message
isBot(u) == u = Self

PagedEmojis == <<"back", "fwd">>
RatingEmojis == <<"up", "down", "poop">>
Emojis == {"back", "fwd", "up", "down", "poop"}
Undefined == "undefined"      \* what shift() yields on an empty array

Range(s) == {s[i] : i \in 1..Len(s)}

VARIABLES
  pc,          \* idle | noop | sending | sendFailed | posting | rejected | resolved | active
               \* | done | threw | awaiting | processed | timedOut
  kind,        \* none | poster | paged | rating | note | send | await: the operation called
  pages,       \* pages.length; page i of the array is rendered as content i
  page,        \* the cursor of pagedContent
  emojiList,   \* the list postReactionEmojis still has to post
  emojiArg,    \* the list as it was when postReactionEmojis was first called
  calls,       \* the arguments of msg.react, in call order
  inflight,    \* indices into calls of the react requests not yet settled
  attached,    \* the emojis whose react was acknowledged, in acknowledgement order
  users,       \* reaction.users of each emoji
  removals,    \* reaction.users.remove requests not yet applied: <<emoji, user>>
  collectors,  \* per control emoji: none | open | ended
  edits,       \* number of message edits in flight
  editCount,   \* number of message edits requested
  lastEdit,    \* content of the edit requested last; -1 before the first
  pending,     \* the bag of processRating calls not yet settled
  rating,      \* song.rating
  invoked,     \* per user: how often processRating was called for that user
  added,       \* per user: how many reactions that user added to the message
  notes,       \* per message type: number of notes sent by simpleNote
  flagVotes,   \* number of poop collect events handled
  flagMusic,   \* music notes emitted for poop votes (handler and callback)
  stripCalls,  \* number of reactions.removeAll calls
  strips,      \* reactions.removeAll requests not yet applied
  events,      \* number of reaction events delivered
  channel,     \* whether msg.channel of the originating message is defined
  threw,       \* whether the operation called has thrown an exception
  ret,         \* what the operation returned: none | stub | promise
  sent,        \* number of plain channel.send calls made by send and simpleNote
  processCalls, \* number of calls of the process function of awaitCommand
  serial       \* whether the users of a rating session react one at a time

posterVars == <<emojiList, emojiArg, calls, inflight, attached>>
pagedVars == <<pages, page>>
ratingVars == <<pending, rating, invoked, flagVotes, flagMusic>>
noteVars == <<notes>>
editVars == <<edits, editCount, lastEdit>>
reactionVars == <<users, removals, added, events>>
endVars == <<collectors, stripCalls, strips>>
opVars == <<channel, threw, ret, sent, processCalls, serial>>
vars == <<pc, kind, posterVars, pagedVars, ratingVars, noteVars, editVars,
          reactionVars, endVars, opVars>>

MsgTypes == {"fail", "info", "music", "search"}

Init ==
  /\ pc = "idle" /\ kind = "none"
  /\ pages = 0 /\ page = 0
  /\ emojiList = <<>> /\ emojiArg = <<>> /\ calls = <<>>
  /\ inflight = {} /\ attached = <<>>
  /\ users = [e \in Emojis |-> {}]
  /\ removals = {}
  /\ collectors = [e \in Emojis |-> "none"]
  /\ edits = 0 /\ editCount = 0 /\ lastEdit = -1
  /\ pending = EmptyBag /\ rating = 0
  /\ invoked = [u \in Users |-> 0]
  /\ added = [u \in Users |-> 0]
  /\ notes = [t \in MsgTypes |-> 0]
  /\ flagVotes = 0 /\ flagMusic = 0
  /\ stripCalls = 0 /\ strips = 0 /\ events = 0
  /\ channel = TRUE /\ threw = FALSE /\ ret = "none"
  /\ sent = 0 /\ processCalls = 0 /\ serial = FALSE

-----------------------------------------------------------------------------
\* postReactionEmojis (lines 181-196)

shift(list) == IF list = <<>> THEN Undefined ELSE Head(list)
shifted(list) == IF list = <<>> THEN <<>> ELSE Tail(list)

\* Mutant: every emoji of the list is posted at once instead of one by one.
postReactionEmojis_AllAtOnce(list, settled) ==
  LET all == IF list = <<>> THEN <<Undefined>> ELSE list
  IN /\ calls' = calls \o all
     /\ emojiList' = <<>>
     /\ inflight' = (inflight \ settled) \cup ((Len(calls) + 1)..(Len(calls) + Len(all)))

\* Lines 182-183: msg.react(emojiList.shift()). `settled` are the requests
\* that settled in the step that makes this call.
postReactionEmojis(list, settled) ==
  /\ calls' = Append(calls, shift(list))
  /\ emojiList' = shifted(list)
  /\ inflight' = (inflight \ settled) \cup {Len(calls) + 1}

\* Lines 87-94 and 132-143: the collectors the caller opens once the poster
\* has resolved; a direct call of the poster opens none.
openCollectors ==
  [e \in Emojis |->
     IF \/ kind = "paged" /\ e \in Range(PagedEmojis)
        \/ kind = "rating" /\ e \in Range(RatingEmojis)
     THEN "open" ELSE "none"]

\* The gateway's own reaction add event for the bot's reaction.
selfAdded(e) ==
  IF e \in Emojis THEN [users EXCEPT ![e] = @ \cup {Self}] ELSE users

\* Mutant: the poster resolves on the first acknowledgement.
ReactAck_ResolveEarly(i) ==
  /\ pc = "posting" /\ i \in inflight
  /\ attached' = Append(attached, calls[i])
  /\ users' = selfAdded(calls[i])
  /\ inflight' = inflight \ {i}
  /\ pc' = IF kind = "poster" THEN "resolved" ELSE "active"
  /\ collectors' = openCollectors
  /\ UNCHANGED <<kind, emojiList, emojiArg, calls, pagedVars, ratingVars, noteVars,
                 editVars, removals, added, events, stripCalls, strips>>
  /\ UNCHANGED opVars

\* Lines 184-193: the react request i is acknowledged; the then callback
\* recurses on a non-empty list and resolves otherwise.
ReactAck(i) ==
  /\ pc = "posting" /\ i \in inflight
  /\ attached' = Append(attached, calls[i])
  /\ users' = selfAdded(calls[i])
  /\ IF Len(emojiList) > 0
     THEN /\ postReactionEmojis(emojiList, {i})
          /\ UNCHANGED <<pc, collectors>>
     ELSE /\ inflight' = inflight \ {i}
          /\ pc' = IF kind = "poster" THEN "resolved" ELSE "active"
          /\ collectors' = openCollectors
          /\ UNCHANGED <<emojiList, calls>>
  /\ UNCHANGED <<kind, emojiArg, pagedVars, ratingVars, noteVars, editVars,
                 removals, added, events, stripCalls, strips>>
  /\ UNCHANGED opVars

\* Mutant: a failed attach is skipped and the poster goes on with the list.
ReactFail_Continue(i) ==
  /\ pc = "posting" /\ i \in inflight
  /\ IF Len(emojiList) > 0
     THEN postReactionEmojis(emojiList, {i}) /\ UNCHANGED pc
     ELSE inflight' = inflight \ {i} /\ pc' = "rejected" /\ UNCHANGED <<emojiList, calls>>
  /\ UNCHANGED <<kind, emojiArg, attached, pagedVars, ratingVars, noteVars, editVars,
                 reactionVars, endVars>>
  /\ UNCHANGED opVars

\* Line 194 (and 189): the react request i is rejected; the poster rejects.
\* No caller handles the rejection: no collector is opened.
ReactFail(i) ==
  /\ pc = "posting" /\ i \in inflight
  /\ inflight' = inflight \ {i}
  /\ pc' = "rejected"
  /\ UNCHANGED <<kind, emojiList, emojiArg, calls, attached, pagedVars, ratingVars,
                 noteVars, editVars, reactionVars, endVars>>
  /\ UNCHANGED opVars

\* Mutant: the poster checks the list first and resolves at once on an empty
\* list.
CallPostReactionEmojis_SkipEmpty(list) ==
  /\ pc = "idle"
  /\ kind' = "poster"
  /\ emojiArg' = list
  /\ IF list = <<>>
     THEN pc' = "resolved" /\ UNCHANGED <<calls, emojiList, inflight>>
     ELSE pc' = "posting" /\ postReactionEmojis(list, {})
  /\ UNCHANGED <<attached, pagedVars, ratingVars, noteVars, editVars,
                 reactionVars, endVars>>
  /\ UNCHANGED opVars

\* A direct call of postReactionEmojis(msg, list) on an existing message.
CallPostReactionEmojis(list) ==
  /\ pc = "idle"
  /\ kind' = "poster" /\ pc' = "posting"
  /\ emojiArg' = list
  /\ postReactionEmojis(list, {})
  /\ UNCHANGED <<attached, pagedVars, ratingVars, noteVars, editVars,
                 reactionVars, endVars>>
  /\ UNCHANGED opVars

-----------------------------------------------------------------------------
\* curPage.edit(content), reaction.message.edit(content): the edit request is
\* sent and its promise is dropped.
edit(content) ==
  /\ edits' = edits + 1
  /\ editCount' = editCount + 1
  /\ lastEdit' = content

\* simpleNote (lines 28-54) on a message that has a channel, with a text of
\* one line: one send, prefixed by the glyph of the type.
simpleNote(type) ==
  notes' = [notes EXCEPT ![type] = @ + 1]

-----------------------------------------------------------------------------
\* pagedContent (lines 76-113)

\* Lines 76-83: the channel check and the send of pages[0].
CallPagedContent(n, hasChannel) ==
  /\ pc = "idle"
  /\ kind' = "paged"
  /\ pages' = n
  /\ pc' = IF hasChannel THEN "sending" ELSE "noop"
  /\ UNCHANGED <<page, posterVars, ratingVars, noteVars, editVars,
                 reactionVars, endVars>>
  /\ channel' = hasChannel
  /\ UNCHANGED <<threw, ret, sent, processCalls>>
  /\ UNCHANGED serial

\* Lines 85 and 129: the send is acknowledged, the poster is started with
\* the literal emoji list. The gateway refuses an empty message, so the send
\* of pages[0] of an empty pages array is never acknowledged.
SendAck ==
  /\ pc = "sending"
  /\ kind = "paged" => pages > 0
  /\ pc' = "posting"
  /\ emojiArg' = IF kind = "paged" THEN PagedEmojis ELSE RatingEmojis
  /\ postReactionEmojis(emojiArg', {})
  /\ UNCHANGED <<kind, attached, pagedVars, ratingVars, noteVars, editVars,
                 reactionVars, endVars>>
  /\ UNCHANGED opVars

\* The send is rejected: the promise chain ends, nothing handles it.
SendFail ==
  /\ pc = "sending"
  /\ pc' = "sendFailed"
  /\ UNCHANGED <<kind, posterVars, pagedVars, ratingVars, noteVars, editVars,
                 reactionVars, endVars>>
  /\ UNCHANGED opVars

\* Mutant: the collectors get different time options, so that events are
\* delivered between the expiry of one and the expiry of the next.
ttlFiring_Apart == FALSE

\* The collectors of one message are created in one callback with the same
\* time option (lines 87-94, 132-143), so their timers expire together and
\* the runtime runs the expired timers back to back: once the first has
\* fired, no gateway event is delivered before the last has fired.
ttlFiring ==
  /\ \E e \in Emojis : collectors[e] = "ended"
  /\ \E e \in Emojis : collectors[e] = "open"

\* Nothing of an earlier reaction is left to do: no scoring callback is
\* pending, no removal or edit is in flight, the reaction was taken away.
quiet ==
  /\ pending = EmptyBag /\ removals = {} /\ edits = 0
  /\ \A x \in Emojis : users[x] \subseteq {Self}

\* A user other than the bot can add a reaction they do not hold yet; in a
\* serial session only once the reaction before it was handled to its end.
canReact(e, u) ==
  /\ ~ttlFiring
  /\ pc \in {"posting", "active"}
  /\ kind \in {"paged", "rating"}
  /\ e \in Range(IF kind = "paged" THEN PagedEmojis ELSE RatingEmojis)
  /\ u \in Humans
  /\ u \notin users[e]
  /\ serial => quiet
  /\ events < (IF kind = "paged" THEN MaxNav ELSE IF serial THEN MaxSerial ELSE MaxVotes)

\* The gateway's bookkeeping of a delivered reaction add event.
delivered(e, u) ==
  /\ users' = [users EXCEPT ![e] = @ \cup {u}]
  /\ added' = [added EXCEPT ![u] = @ + 1]
  /\ events' = events + 1

\* Mutant: the forward filter accepts the reaction of any user.
nextFilter_Any(e, u) == e = "fwd"

\* Lines 88 and 92: the filters of the two paged collectors.
nextFilter(e, u) == e = "fwd" /\ u = Author
backFilter(e, u) == e = "back" /\ u = Author

\* Mutant: the forward handler moves without the bound check.
NextCollect_NoBound(u) ==
  /\ canReact("fwd", u) /\ collectors["fwd"] = "open" /\ nextFilter("fwd", u)
  /\ delivered("fwd", u)
  /\ removals' = removals \cup {<<"fwd", Author>>}
  /\ page' = page + 1
  /\ edit(page + 1)
  /\ UNCHANGED <<pc, kind, pages, posterVars, ratingVars, noteVars,
                 endVars>>
  /\ UNCHANGED opVars

\* Mutant: the forward handler renders the page it leaves (pages[page++]).
NextCollect_StaleEdit(u) ==
  /\ canReact("fwd", u) /\ collectors["fwd"] = "open" /\ nextFilter("fwd", u)
  /\ delivered("fwd", u)
  /\ removals' = removals \cup {<<"fwd", Author>>}
  /\ IF (page + 1) < pages
     THEN /\ page' = page + 1
          /\ edit(page)
     ELSE UNCHANGED <<page, edits, editCount, lastEdit>>
  /\ UNCHANGED <<pc, kind, pages, posterVars, ratingVars, noteVars,
                 endVars>>
  /\ UNCHANGED opVars

\* Lines 96-102: nextReaction.on("collect").
NextCollect(u) ==
  /\ canReact("fwd", u) /\ collectors["fwd"] = "open" /\ nextFilter("fwd", u)
  /\ delivered("fwd", u)
  /\ removals' = removals \cup {<<"fwd", Author>>}
  /\ IF (page + 1) < pages
     THEN /\ page' = page + 1
          /\ edit(page + 1)
     ELSE UNCHANGED <<page, edits, editCount, lastEdit>>
  /\ UNCHANGED <<pc, kind, pages, posterVars, ratingVars, noteVars,
                 endVars>>
  /\ UNCHANGED opVars

\* Mutant: the back handler renders the current page even at the first page.
BackCollect_AlwaysEdit(u) ==
  /\ canReact("back", u) /\ collectors["back"] = "open" /\ backFilter("back", u)
  /\ delivered("back", u)
  /\ removals' = removals \cup {<<"back", Author>>}
  /\ page' = IF page > 0 THEN page - 1 ELSE page
  /\ edit(page')
  /\ UNCHANGED <<pc, kind, pages, posterVars, ratingVars, noteVars,
                 endVars>>
  /\ UNCHANGED opVars

\* Lines 103-109: backReaction.on("collect").
BackCollect(u) ==
  /\ canReact("back", u) /\ collectors["back"] = "open" /\ backFilter("back", u)
  /\ delivered("back", u)
  /\ removals' = removals \cup {<<"back", Author>>}
  /\ IF page > 0
     THEN /\ page' = page - 1
          /\ edit(page - 1)
     ELSE UNCHANGED <<page, edits, editCount, lastEdit>>
  /\ UNCHANGED <<pc, kind, pages, posterVars, ratingVars, noteVars,
                 endVars>>
  /\ UNCHANGED opVars

-----------------------------------------------------------------------------
\* displaySong (lines 121-160) and handleRatingReaction (lines 207-219)

\* Lines 121-127: the channel check and the send of the song embed.
\* oneAtATime tells how the users of the session will react: one at a time,
\* up to MaxSerial reactions, or as they like, up to MaxVotes reactions.
CallDisplaySong(hasChannel, oneAtATime) ==
  /\ pc = "idle"
  /\ kind' = "rating"
  /\ pc' = IF hasChannel THEN "sending" ELSE "noop"
  /\ UNCHANGED <<posterVars, pagedVars, ratingVars, noteVars, editVars,
                 reactionVars, endVars>>
  /\ channel' = hasChannel
  /\ UNCHANGED <<threw, ret, sent, processCalls>>
  /\ serial' = (hasChannel /\ oneAtATime)

\* Lines 133, 137 and 141: the filters of the three rating collectors.
upFilter(e, u) == e = "up" /\ ~isBot(u)
downFilter(e, u) == e = "down" /\ ~isBot(u)
poopFilter(e, u) == e = "poop" /\ ~isBot(u)

\* Mutant: the bot filter of the handler is dropped.
voters_All(reactionUsers) == reactionUsers

\* Line 208: reaction.users.filter((user) => !user.bot).
voters(reactionUsers) == {v \in reactionUsers : ~isBot(v)}

\* Lines 208-210: for every user of the reaction that is no bot, the removal
\* of that user's reaction is requested and processRating is called.
handleRatingReaction(e, reactionUsers, delta, ignoreCd) ==
  LET vs == voters(reactionUsers)
  IN /\ removals' = removals \cup {<<e, v>> : v \in vs}
     /\ pending' = pending (+) SetToBag(
          {[emoji |-> e, user |-> v, delta |-> delta, ignoreCd |-> ignoreCd] : v \in vs})
     /\ invoked' = [v \in Users |-> IF v \in vs THEN invoked[v] + 1 ELSE invoked[v]]

\* Lines 145-147: upReaction.on("collect").
UpCollect(u) ==
  /\ canReact("up", u) /\ collectors["up"] = "open" /\ upFilter("up", u)
  /\ delivered("up", u)
  /\ handleRatingReaction("up", users'["up"], 1, FALSE)
  /\ UNCHANGED <<pc, kind, posterVars, pagedVars, rating, flagVotes, flagMusic,
                 noteVars, editVars, endVars>>
  /\ UNCHANGED opVars

\* Lines 148-150: downReaction.on("collect").
DownCollect(u) ==
  /\ canReact("down", u) /\ collectors["down"] = "open" /\ downFilter("down", u)
  /\ delivered("down", u)
  /\ handleRatingReaction("down", users'["down"], -1, FALSE)
  /\ UNCHANGED <<pc, kind, posterVars, pagedVars, rating, flagVotes, flagMusic,
                 noteVars, editVars, endVars>>
  /\ UNCHANGED opVars

\* Mutant: the flag handler forgets its note.
PoopCollect_NoNote(u) ==
  /\ canReact("poop", u) /\ collectors["poop"] = "open" /\ poopFilter("poop", u)
  /\ delivered("poop", u)
  /\ flagVotes' = flagVotes + 1
  /\ handleRatingReaction("poop", users'["poop"], -1000, TRUE)
  /\ UNCHANGED <<pc, kind, posterVars, pagedVars, rating, flagMusic, noteVars,
                 editVars, endVars>>
  /\ UNCHANGED opVars

\* Mutant: the flag handler stops the three collectors.
PoopCollect_Stops(u) ==
  /\ canReact("poop", u) /\ collectors["poop"] = "open" /\ poopFilter("poop", u)
  /\ delivered("poop", u)
  /\ simpleNote("music")
  /\ flagVotes' = flagVotes + 1
  /\ flagMusic' = flagMusic + 1
  /\ handleRatingReaction("poop", users'["poop"], -1000, TRUE)
  /\ collectors' = [e \in Emojis |-> IF collectors[e] = "open" THEN "ended" ELSE collectors[e]]
  /\ UNCHANGED <<pc, kind, posterVars, pagedVars, rating, editVars, stripCalls, strips>>
  /\ UNCHANGED opVars

\* Lines 151-155: poopReaction.on("collect"): the note, then the rating.
PoopCollect(u) ==
  /\ canReact("poop", u) /\ collectors["poop"] = "open" /\ poopFilter("poop", u)
  /\ delivered("poop", u)
  /\ simpleNote("music")
  /\ flagVotes' = flagVotes + 1
  /\ flagMusic' = flagMusic + 1
  /\ handleRatingReaction("poop", users'["poop"], -1000, TRUE)
  /\ UNCHANGED <<pc, kind, posterVars, pagedVars, rating, editVars, endVars>>
  /\ UNCHANGED opVars

\* Mutant: the embed is built before the callback's delta is applied.
ScoringResolve_RendersOld(c, hasNote) ==
  /\ BagIn(c, pending)
  /\ pending' = pending (-) SetToBag({c})
  /\ rating' = rating + c.delta
  /\ edit(rating)
  /\ IF hasNote
     THEN /\ simpleNote("music")
          /\ flagMusic' = IF c.ignoreCd THEN flagMusic + 1 ELSE flagMusic
     ELSE UNCHANGED <<noteVars, flagMusic>>
  /\ UNCHANGED <<pc, kind, posterVars, pagedVars, invoked, flagVotes,
                 reactionVars, endVars>>
  /\ UNCHANGED opVars

\* Lines 211-216: processRating resolves for the pending call c. The
\* callback is the caller's; it is modelled as the one that adds the delta to
\* song.rating before it resolves, with a note (hasNote) or without.
ScoringResolve(c, hasNote) ==
  /\ BagIn(c, pending)
  /\ pending' = pending (-) SetToBag({c})
  /\ rating' = rating + c.delta
  /\ edit(rating')
  /\ IF hasNote
     THEN /\ simpleNote("music")
          /\ flagMusic' = IF c.ignoreCd THEN flagMusic + 1 ELSE flagMusic
     ELSE UNCHANGED <<noteVars, flagMusic>>
  /\ UNCHANGED <<pc, kind, posterVars, pagedVars, invoked, flagVotes,
                 reactionVars, endVars>>
  /\ UNCHANGED opVars

\* Mutant: the catch handler renders the song as the then handler does.
ScoringReject_Renders(c) ==
  /\ BagIn(c, pending)
  /\ pending' = pending (-) SetToBag({c})
  /\ simpleNote("fail")
  /\ edit(rating)
  /\ UNCHANGED <<pc, kind, posterVars, pagedVars, rating, invoked, flagVotes,
                 flagMusic, reactionVars, endVars>>
  /\ UNCHANGED opVars

\* Line 217: processRating rejects for the pending call c; the error is sent
\* as a fail note.
ScoringReject(c) ==
  /\ BagIn(c, pending)
  /\ pending' = pending (-) SetToBag({c})
  /\ simpleNote("fail")
  /\ UNCHANGED <<pc, kind, posterVars, pagedVars, rating, invoked, flagVotes,
                 flagMusic, editVars, reactionVars, endVars>>
  /\ UNCHANGED opVars

-----------------------------------------------------------------------------
\* Collectors

\* Whether an open collector of the message passes the event to its handler.
collected(e, u) ==
  /\ collectors[e] = "open"
  /\ \/ kind = "paged" /\ (nextFilter(e, u) \/ backFilter(e, u))
     \/ kind = "rating" /\ (upFilter(e, u) \/ downFilter(e, u) \/ poopFilter(e, u))

\* A reaction that no open collector's filter accepts: only the cache of the
\* reaction's users changes.
ReactionIgnored(e, u) ==
  /\ canReact(e, u) /\ ~collected(e, u)
  /\ delivered(e, u)
  /\ UNCHANGED <<pc, kind, posterVars, pagedVars, ratingVars, noteVars, editVars,
                 removals, endVars>>
  /\ UNCHANGED opVars

\* The collectors in the order lines 87-94 and 132-143 create them. All have
\* the same time option, so their timers fire in this order.
created == IF kind = "paged" THEN <<"fwd", "back">> ELSE <<"up", "down", "poop">>

\* Mutant: the end handlers leave the reactions on the message.
CollectorEnd_NoStrip(e) ==
  /\ collectors[e] = "open"
  /\ \A i, j \in 1..Len(created) :
       (i < j /\ created[j] = e) => collectors[created[i]] = "ended"
  /\ collectors' = [collectors EXCEPT ![e] = "ended"]
  /\ UNCHANGED <<pc, kind, posterVars, pagedVars, ratingVars, noteVars, editVars,
                 reactionVars, stripCalls, strips>>
  /\ UNCHANGED opVars

\* Mutant: the end handler also tells the user that the session is over.
CollectorEnd_Notes(e) ==
  /\ collectors[e] = "open"
  /\ \A i, j \in 1..Len(created) :
       (i < j /\ created[j] = e) => collectors[created[i]] = "ended"
  /\ collectors' = [collectors EXCEPT ![e] = "ended"]
  /\ stripCalls' = stripCalls + 1
  /\ strips' = strips + 1
  /\ simpleNote("info")
  /\ UNCHANGED <<pc, kind, posterVars, pagedVars, ratingVars, editVars,
                 reactionVars>>
  /\ UNCHANGED opVars

\* Lines 110-111 and 156-158: the timer of collector e fires; its end handler
\* requests the removal of all reactions.
CollectorEnd(e) ==
  /\ collectors[e] = "open"
  /\ \A i, j \in 1..Len(created) :
       (i < j /\ created[j] = e) => collectors[created[i]] = "ended"
  /\ collectors' = [collectors EXCEPT ![e] = "ended"]
  /\ stripCalls' = stripCalls + 1
  /\ strips' = strips + 1
  /\ UNCHANGED <<pc, kind, posterVars, pagedVars, ratingVars, noteVars, editVars,
                 reactionVars>>
  /\ UNCHANGED opVars

-----------------------------------------------------------------------------
\* The gateway

\* A reaction.users.remove request takes effect: the user leaves the cache.
RemovalApplied(e, u) ==
  /\ ~ttlFiring
  /\ <<e, u>> \in removals
  /\ removals' = removals \ {<<e, u>>}
  /\ users' = [users EXCEPT ![e] = @ \ {u}]
  /\ UNCHANGED <<pc, kind, posterVars, pagedVars, ratingVars, noteVars, editVars,
                 added, events, endVars>>
  /\ UNCHANGED opVars

\* A message edit in flight is acknowledged.
EditAck ==
  /\ ~ttlFiring
  /\ edits > 0
  /\ edits' = edits - 1
  /\ UNCHANGED <<pc, kind, posterVars, pagedVars, ratingVars, noteVars, editCount,
                 lastEdit, reactionVars, endVars>>
  /\ UNCHANGED opVars

\* A reactions.removeAll request takes effect: every reaction leaves the message.
StripApplied ==
  /\ ~ttlFiring
  /\ strips > 0
  /\ strips' = strips - 1
  /\ users' = [e \in Emojis |-> {}]
  /\ UNCHANGED <<pc, kind, posterVars, pagedVars, ratingVars, noteVars, editVars,
                 removals, added, events, collectors, stripCalls>>
  /\ UNCHANGED opVars

-----------------------------------------------------------------------------

\* The lists a direct caller hands to the poster.
\* The type argument of simpleNote: a message type, or anything else
\* (the default branch of the switch sends the line as it is).
NoteTypes == MsgTypes \cup {"plain"}

\* simpleNote called as a public operation with a one-line text: a stub
\* promise when msg.channel is undefined, else one send of the decorated line.
CallSimpleNote(type, hasChannel) ==
  /\ pc = "idle"
  /\ kind' = "note"
  /\ channel' = hasChannel
  /\ ret' = IF hasChannel THEN "promise" ELSE "stub"
  /\ pc' = IF hasChannel THEN "done" ELSE "noop"
  /\ IF hasChannel /\ type \in MsgTypes
       THEN simpleNote(type)
       ELSE UNCHANGED noteVars
  /\ sent' = IF hasChannel /\ type = "plain" THEN sent + 1 ELSE sent
  /\ UNCHANGED <<threw, processCalls, posterVars, pagedVars, ratingVars, editVars,
                 reactionVars, endVars>>
  /\ UNCHANGED serial

\* send: a stub promise when msg.channel is undefined, else the promise of
\* msg.channel.send(content).
CallSend(hasChannel) ==
  /\ pc = "idle"
  /\ kind' = "send"
  /\ channel' = hasChannel
  /\ ret' = IF hasChannel THEN "promise" ELSE "stub"
  /\ pc' = IF hasChannel THEN "done" ELSE "noop"
  /\ sent' = IF hasChannel THEN sent + 1 ELSE sent
  /\ UNCHANGED <<threw, processCalls, posterVars, pagedVars, ratingVars, noteVars,
                 editVars, reactionVars, endVars>>
  /\ UNCHANGED serial

\* awaitCommand with a guard on the channel like the other operations have.
CallAwaitCommand_Guarded(hasChannel) ==
  /\ pc = "idle"
  /\ kind' = "await"
  /\ channel' = hasChannel
  /\ pc' = IF hasChannel THEN "awaiting" ELSE "noop"
  /\ UNCHANGED <<threw, ret, sent, processCalls, posterVars, pagedVars, ratingVars,
                 noteVars, editVars, reactionVars, endVars>>
  /\ UNCHANGED serial

\* awaitCommand: msg.channel.awaitMessages is dereferenced with no check of
\* msg.channel, so the call throws a TypeError when the channel is undefined;
\* else a message collector with max 1 and a time limit is opened.  The
\* operation returns nothing.
CallAwaitCommand(hasChannel) ==
  /\ pc = "idle"
  /\ kind' = "await"
  /\ channel' = hasChannel
  /\ threw' = ~hasChannel
  /\ pc' = IF hasChannel THEN "awaiting" ELSE "threw"
  /\ UNCHANGED <<ret, sent, processCalls, posterVars, pagedVars, ratingVars,
                 noteVars, editVars, reactionVars, endVars>>
  /\ UNCHANGED serial

\* A message passing the filter arrives in time: awaitMessages resolves (max
\* 1 ends the collector) and process is invoked; when process throws or
\* rejects (~ok) the catch handler sends a fail note.
FollowUp(ok) ==
  /\ pc = "awaiting"
  /\ pc' = "processed"
  /\ processCalls' = processCalls + 1
  /\ IF ok THEN UNCHANGED noteVars ELSE simpleNote("fail")
  /\ UNCHANGED <<kind, channel, threw, ret, sent, posterVars, pagedVars, ratingVars,
                 editVars, reactionVars, endVars>>
  /\ UNCHANGED serial

\* The timeout handled like a normal end of the collector.
AwaitTimeout_Processes ==
  /\ pc = "awaiting"
  /\ pc' = "timedOut"
  /\ processCalls' = processCalls + 1
  /\ UNCHANGED <<kind, channel, threw, ret, sent, posterVars, pagedVars, ratingVars,
                 noteVars, editVars, reactionVars, endVars>>
  /\ UNCHANGED serial

\* The time limit passes with no message passing the filter: "time" is one of
\* the errors, so awaitMessages rejects, process is skipped and the catch
\* handler sends a fail note.
AwaitTimeout ==
  /\ pc = "awaiting"
  /\ pc' = "timedOut"
  /\ simpleNote("fail")
  /\ UNCHANGED <<kind, channel, threw, ret, sent, processCalls, posterVars, pagedVars,
                 ratingVars, editVars, reactionVars, endVars>>
  /\ UNCHANGED serial

Lists == UNION {[1..n -> {"up", "down", "poop"}] : n \in 0..MaxLen}

NextPoster ==
  \/ \E list \in Lists : CallPostReactionEmojis(list)
  \/ \E i \in inflight : ReactAck(i)
  \/ \E i \in inflight : ReactFail(i)

Gateway ==
  \/ SendAck
  \/ SendFail
  \/ \E i \in inflight : ReactAck(i)
  \/ \E i \in inflight : ReactFail(i)
  \/ \E e \in Emojis, u \in Humans : ReactionIgnored(e, u)
  \/ \E e \in Emojis, u \in Users : RemovalApplied(e, u)
  \/ EditAck
  \/ \E e \in Emojis : CollectorEnd(e)
  \/ StripApplied

NextPaged ==
  \/ \E n \in 0..MaxPages, c \in BOOLEAN : CallPagedContent(n, c)
  \/ \E u \in Humans : NextCollect(u)
  \/ \E u \in Humans : BackCollect(u)
  \/ Gateway

NextRating ==
  \/ \E c \in BOOLEAN, s \in BOOLEAN : CallDisplaySong(c, s)
  \/ \E u \in Humans : UpCollect(u)
  \/ \E u \in Humans : DownCollect(u)
  \/ \E u \in Humans : PoopCollect(u)
  \/ \E c \in BagToSet(pending), n \in BOOLEAN : ScoringResolve(c, n)
  \/ \E c \in BagToSet(pending) : ScoringReject(c)
  \/ Gateway

Next ==
  \/ \E n \in 0..MaxPages, c \in BOOLEAN : CallPagedContent(n, c)
  \/ \E u \in Humans : NextCollect(u)
  \/ \E u \in Humans : BackCollect(u)
  \/ \E c \in BOOLEAN : CallDisplaySong(c, FALSE)
  \/ \E u \in Humans : UpCollect(u)
  \/ \E u \in Humans : DownCollect(u)
  \/ \E u \in Humans : PoopCollect(u)
  \/ \E c \in BagToSet(pending), n \in BOOLEAN : ScoringResolve(c, n)
  \/ \E c \in BagToSet(pending) : ScoringReject(c)
  \/ Gateway

\* The operations that open no session.
NextSimple ==
  \/ \E t \in NoteTypes, c \in BOOLEAN : CallSimpleNote(t, c)
  \/ \E c \in BOOLEAN : CallSend(c)
  \/ \E c \in BOOLEAN : CallAwaitCommand(c)
  \/ \E ok \in BOOLEAN : FollowUp(ok)
  \/ AwaitTimeout

NextPlain ==
  \/ NextSimple
  \/ NextPaged

NextService ==
  \/ NextSimple
  \/ \E n \in 0..MaxPages, c \in BOOLEAN : CallPagedContent(n, c)
  \/ \E u \in Humans : NextCollect(u)
  \/ \E u \in Humans : BackCollect(u)
  \/ \E c \in BOOLEAN : CallDisplaySong(c, FALSE)
  \/ \E u \in Humans : UpCollect(u)
  \/ \E u \in Humans : DownCollect(u)
  \/ \E u \in Humans : PoopCollect(u)
  \/ \E c \in BagToSet(pending), n \in BOOLEAN : ScoringResolve(c, n)
  \/ \E c \in BagToSet(pending) : ScoringReject(c)
  \/ Gateway

NextFair ==
  \/ \E n \in 0..MaxPages, c \in BOOLEAN : CallPagedContent(n, c)
  \/ \E u \in Humans : NextCollect(u)
  \/ \E u \in Humans : BackCollect(u)
  \/ \E c \in BOOLEAN : CallDisplaySong(c, FALSE)
  \/ \E u \in Humans : UpCollect(u)
  \/ \E u \in Humans : DownCollect(u)
  \/ \E u \in Humans : PoopCollect(u)
  \/ \E c \in BagToSet(pending) : ScoringResolve(c, FALSE)
  \/ Gateway

\* A direct call of the poster.
SpecPoster == Init /\ [][NextPoster]_vars
\* One paged session.
SpecPaged == Init /\ [][NextPaged]_vars
\* One rating session, its users reacting as they like or one at a time.
SpecRating == Init /\ [][NextRating]_vars
\* One session of either kind.
Spec == Init /\ [][Next]_vars
\* One call of a public operation other than displaySong.
SpecPlain == Init /\ [][NextPlain]_vars
\* One call of any public operation.
SpecService == Init /\ [][NextService]_vars
\* One session of either kind whose scoring callback resolves with no note,
\* where a timer that is due fires and the gateway serves a removeAll request
\* it was sent.
SpecFair ==
  /\ Init /\ [][NextFair]_vars
  /\ WF_vars(\E e \in Emojis : CollectorEnd(e))
  /\ WF_vars(StripApplied)

-----------------------------------------------------------------------------
\* Properties

ratingOpen == \A i \in 1..Len(RatingEmojis) : collectors[RatingEmojis[i]] = "open"

\* C1: in an open paged session the cursor stays within [0, len(pages)-1]
\* after any sequence of forward and back reactions.
C1_CursorInBounds ==
  (kind = "paged" /\ pc = "active") => (0 <= page /\ page <= pages - 1)

\* The cursor sits on the last of three pages after three forward reactions.
C1_Witness ==
  /\ kind = "paged" /\ pc = "active"
  /\ pages = 3 /\ page = 2 /\ events = 3 /\ editCount = 2

\* C2: a forward reaction at the last page and a back reaction at the first
\* page leave the cursor unchanged and request no edit and no note.
C2_BoundaryNoOp ==
  [][(\/ (\E u \in Humans : NextCollect(u)) /\ page + 1 >= pages
      \/ (\E u \in Humans : BackCollect(u)) /\ page = 0)
     => UNCHANGED <<page, editVars, noteVars>>]_vars

\* A back reaction was handled at the first page: its removal is requested
\* and no edit was ever requested.
C2_Witness ==
  /\ kind = "paged" /\ pc = "active"
  /\ page = 0 /\ editCount = 0 /\ <<"back", Author>> \in removals

\* The react calls a list asks for: one per emoji, or one with undefined.
expected == IF emojiArg = <<>> THEN <<Undefined>> ELSE emojiArg

\* C3: the emojis are attached in list order, the attach of an emoji begins
\* only after the attach of the one before it was acknowledged, and the
\* poster resolves only after the last emoji is attached.
C3_Sequential ==
  /\ Cardinality(inflight) <= 1
  /\ \A i \in inflight : i = Len(calls) /\ Len(attached) = i - 1
  /\ Len(calls) <= Len(expected)
  /\ calls = SubSeq(expected, 1, Len(calls))
  /\ attached = SubSeq(calls, 1, Len(attached))
  /\ pc \in {"resolved", "active"} => attached = expected

\* A list of three emojis was attached and the poster has resolved.
C3_Witness ==
  /\ kind = "poster" /\ pc = "resolved"
  /\ Len(emojiArg) = 3 /\ attached = emojiArg

\* C4: when the attach of the k-th emoji fails the poster rejects, and no
\* attach is attempted for an emoji after position k.
C4_AbortOnFailure ==
  pc = "rejected" =>
    /\ inflight = {}
    /\ Len(calls) = Len(attached) + 1
    /\ calls = SubSeq(expected, 1, Len(calls))
    /\ emojiList = SubSeq(emojiArg, Len(calls) + 1, Len(emojiArg))

\* The second attach of a list of three failed; the third was never tried.
C4_Witness ==
  /\ kind = "poster" /\ pc = "rejected"
  /\ Len(emojiArg) = 3 /\ Len(calls) = 2 /\ Len(attached) = 1 /\ Len(emojiList) = 1

C7_Original ==
  (\A c \in BagToSet(pending) : ~c.ignoreCd) => flagMusic = flagVotes

\* C7 as amended: the handler of a flag vote requests the removal of the
\* acting user's reaction and emits exactly one music note; the callback adds
\* one music note each time it resolves with a note.
C7_Amended ==
  [][/\ flagVotes' # flagVotes =>
          /\ notes' = [notes EXCEPT !["music"] = @ + 1]
          /\ flagMusic' = flagMusic + 1
          /\ \E u \in Humans :
               /\ added'[u] = added[u] + 1
               /\ <<"poop", u>> \in removals'
               /\ BagIn([emoji |-> "poop", user |-> u, delta |-> -1000, ignoreCd |-> TRUE],
                        pending')
     /\ (flagMusic' # flagMusic /\ flagVotes' = flagVotes) =>
          /\ flagMusic' = flagMusic + 1
          /\ notes' = [notes EXCEPT !["music"] = @ + 1]
          /\ \E c \in BagToSet(pending) : c.ignoreCd /\ pending' = pending (-) SetToBag({c})
    ]_vars

\* A flag vote whose callback resolved with a note: two music notes.
C7_Witness ==
  /\ kind = "rating" /\ flagVotes = 1 /\ flagMusic = 2 /\ notes["music"] = 2
  /\ pending = EmptyBag /\ <<"poop", "U2">> \in removals

\* C8: when processRating rejects, no edit is requested, one fail note is
\* emitted, and the session stays active with its collectors as they were.
C8_RejectIsLocal ==
  [][(\E c \in BagToSet(pending) : ScoringReject(c)) =>
       /\ UNCHANGED <<editVars, rating, pc, collectors, stripCalls, strips>>
       /\ notes' = [notes EXCEPT !["fail"] = @ + 1]]_vars

\* One vote was rejected and another one rendered; the collectors are open.
C8_Witness ==
  /\ kind = "rating" /\ pc = "active" /\ ratingOpen
  /\ notes["fail"] = 1 /\ editCount = 1 /\ pending = EmptyBag

deltaOf(e) == CASE e = "up" -> 1 [] e = "down" -> -1 [] e = "poop" -> -1000 [] OTHER -> 0

\* C9: processRating is called for users that are no bots only, with the
\* delta +1 for up, -1 for down and -1000 for the flag.
C9_HumanVotesOnly ==
  /\ \A u \in Users : isBot(u) => invoked[u] = 0
  /\ \A c \in BagToSet(pending) :
       /\ ~isBot(c.user)
       /\ c.emoji \in Range(RatingEmojis)
       /\ c.delta = deltaOf(c.emoji)

\* A flag vote is being scored while the bot's own reaction is on the emoji.
C9_Witness ==
  /\ Self \in users["poop"]
  /\ \E c \in BagToSet(pending) : c.emoji = "poop" /\ c.user = "U1"

\* C10 as stated: processRating is called for a user at most once for every
\* reaction that user added.
C10_Original ==
  \A u \in Humans : invoked[u] <= added[u]

anyEnded == \E e \in Emojis : collectors[e] = "ended"
torn == kind \in {"paged", "rating"} /\ \A i \in 1..Len(created) : collectors[created[i]] = "ended"

\* C11 as stated: once the collectors of a session have ended, the cursor and
\* the rating no longer change and no edit is requested.
C11_Original ==
  [][torn => (page' = page /\ rating' = rating /\ editCount' = editCount)]_vars

\* C11 as amended: every collector that ends requests the removal of all
\* reactions, and once the first collector of a session has ended no collect
\* handler runs any more: the cursor does not move, no scoring call is made
\* and a paged session requests no edit. A scoring call made before may
\* still settle and render.
C11_Amended ==
  [][/\ collectors' # collectors /\ anyEnded' => stripCalls' = stripCalls + 1
     /\ anyEnded =>
          /\ page' = page /\ invoked' = invoked /\ flagVotes' = flagVotes
          /\ removals' \subseteq removals
          /\ kind = "paged" => editCount' = editCount
    ]_vars

\* After the teardown of a rating session, with every strip applied, a user
\* has added an up reaction and was not scored.
C11_Witness ==
  /\ kind = "rating" /\ torn /\ stripCalls = 3 /\ strips = 0
  /\ "U1" \in users["up"] /\ invoked["U1"] = 0

noReactions == users = [e \in Emojis |-> {}]

\* C12: the teardown of a session runs once for every collector that ends;
\* each run only requests the removal of all reactions, with no note, no
\* edit and no change of the session, and a removal that is applied to a
\* message already stripped leaves it as it is.
C12_TeardownIdempotent ==
  [][/\ collectors' # collectors /\ anyEnded' =>
          /\ strips' = strips + 1
          /\ UNCHANGED <<pc, noteVars, editVars, ratingVars, pagedVars, reactionVars>>
     /\ strips' < strips =>
          /\ noReactions'
          /\ noReactions => users' = users
          /\ UNCHANGED <<pc, noteVars, editVars, ratingVars, pagedVars, removals,
                         collectors>>
    ]_vars

\* Both collectors of a paged session have ended, both removals were applied,
\* and no note was sent.
C12_Witness ==
  /\ kind = "paged" /\ torn /\ stripCalls = 2 /\ strips = 0
  /\ noReactions /\ notes = [t \in MsgTypes |-> 0]


\* No request of any kind has been made to the gateway.
noGatewayCall ==
  /\ pc \notin {"sending", "sendFailed", "posting", "rejected", "resolved", "active",
                "awaiting", "processed", "timedOut"}
  /\ calls = <<>> /\ sent = 0 /\ notes = [t \in MsgTypes |-> 0]
  /\ editCount = 0 /\ removals = {} /\ stripCalls = 0

\* C13 as stated: an operation called on a message with no channel makes no
\* gateway call and throws nothing, and simpleNote and send return a promise
\* of a stub.
C13_Original ==
  (kind \in {"note", "send", "paged", "rating", "await"} /\ ~channel) =>
    /\ ~threw
    /\ noGatewayCall
    /\ kind \in {"note", "send"} => ret = "stub"

\* C14 as stated: a failed first send, a failed attach and a follow-up
\* timeout each leave a fail note behind.
C14_Original ==
  (kind \in {"paged", "rating", "await"} /\ pc \in {"sendFailed", "rejected", "timedOut"})
    => notes["fail"] >= 1

\* C15: collectors exist only in a session whose first render was sent and
\* whose control emojis are all attached, in order, with no attach left in
\* flight; a session whose send or attach failed has none, and keeps none.
C15_ActiveAfterSetup ==
  /\ (\E e \in Emojis : collectors[e] # "none") =>
       /\ kind \in {"paged", "rating"} /\ pc = "active"
       /\ attached = emojiArg /\ inflight = {}
       /\ emojiArg = (IF kind = "paged" THEN PagedEmojis ELSE RatingEmojis)
  /\ pc \in {"noop", "sending", "sendFailed", "posting", "rejected"} =>
       collectors = [e \in Emojis |-> "none"]

\* A rating session is active with its three emojis attached.
C15_Witness ==
  /\ kind = "rating" /\ pc = "active" /\ ratingOpen
  /\ attached = RatingEmojis /\ Self \in users["poop"]

\* C16: in a paged session a reaction of a user other than the author leaves
\* the cursor, the edits and the reaction removals alone.
C16_AuthorOnly ==
  [][(kind = "paged" /\ \E u \in Humans \ {Author} : added'[u] # added[u])
       => UNCHANGED <<page, editVars, removals>>]_vars

\* Another user has pressed forward on an open session of two pages or more:
\* the cursor is still on the first page and nothing was edited or removed.
C16_Witness ==
  /\ kind = "paged" /\ pc = "active" /\ collectors["fwd"] = "open" /\ pages >= 2
  /\ "U2" \in users["fwd"] /\ added["U1"] = 0
  /\ page = 0 /\ editCount = 0 /\ removals = {}


\* C19: a follow-up prompt calls process at most once; while it waits and
\* after it timed out process was not called, and the timeout left exactly
\* one fail note; after a matching message process was called exactly once.
C19_SingleShot ==
  kind = "await" =>
    /\ processCalls <= 1
    /\ pc = "awaiting" => processCalls = 0 /\ notes["fail"] = 0
    /\ pc = "timedOut" => processCalls = 0 /\ notes["fail"] = 1
    /\ pc = "processed" => processCalls = 1

\* The prompt timed out: process was never called and a fail note was sent.
C19_Witness ==
  kind = "await" /\ pc = "timedOut" /\ processCalls = 0 /\ notes["fail"] = 1

\* C20: the poster consumes its list in place.  When it resolves on a list of
\* n >= 1 emojis, react was called n times and the list is empty; when it
\* rejects at the k-th attach, react was called k times and the n - k later
\* emojis are left in the list; on an empty list react is called once, with
\* undefined.
C20_ConsumesList ==
  kind = "poster" =>
    /\ (pc = "resolved" /\ Len(emojiArg) >= 1) =>
         Len(calls) = Len(emojiArg) /\ emojiList = <<>>
    /\ (pc = "rejected" /\ Len(emojiArg) >= 1) =>
         /\ Len(calls) \in 1..Len(emojiArg)
         /\ Len(emojiList) = Len(emojiArg) - Len(calls)
         /\ \A j \in 1..Len(emojiList) : emojiList[j] = emojiArg[Len(calls) + j]
    /\ emojiArg = <<>> => calls = <<Undefined>> /\ emojiList = <<>>

\* The poster was called with an empty list and its one react call, made
\* with undefined, has settled.
C20_Witness ==
  /\ kind = "poster" /\ emojiArg = <<>> /\ pc \in {"resolved", "rejected"}
  /\ calls = <<Undefined>> /\ inflight = {}


\* The three votes of a serial session were handled to their end with no
\* failure: one of them a flag vote, the rating at -1000 after three renders
\* and the one note of the flag vote.
threeVotesDone ==
  /\ kind = "rating" /\ serial /\ events = 3 /\ pending = EmptyBag
  /\ flagVotes = 1 /\ rating = -1000 /\ editCount = 3 /\ lastEdit = -1000
  /\ notes["music"] = 1 /\ notes["fail"] = 0

tornDown ==
  torn /\ strips = 0 /\ \A e \in Emojis : Self \notin users[e]

\* C18: a session that became active is eventually torn down, whatever
\* reactions arrive before the time limit expires.
C18_TeardownReached == (pc = "active") ~> tornDown

\* A rating session was torn down after two votes had been handled in it.
C18_Witness ==
  /\ kind = "rating" /\ pc = "active" /\ tornDown
  /\ events = 2 /\ editCount = 2 /\ stripCalls = 3

====
